---------------------------- MODULE Spec2Model ----------------------------
(***************************************************************************)
(* QKart backend: the cart service (addProductToCart, updateProductInCart, *)
(* deleteProductFromCart, checkout, getCartByUser), the user model's       *)
(* hasSetNonDefaultAddress and the cart controller's checkout pre-check.   *)
(*                                                                         *)
(* Every service function is an async function: it runs from one `await`   *)
(* to the next without interruption, and other requests may run between    *)
(* two awaits.  One action of the model is one such stretch of a handler.  *)
(***************************************************************************)
EXTENDS Integers, Sequences, FiniteSets, TLC

\* ------------------------------------------------------------------ bounds
\* Largest quantity a request carries (requests carry -1 .. MaxQty).
MaxQty == 2
\* Number of requests that may be in flight at the same time.
MaxInFlight == 2

\* ------------------------------------------------------------ the universe
\* Every operation reads and writes the documents of one email only.
Users == {"u1"}
ProductIds == {"p1", "p2"}
\* A well-formed identifier that names no product of the catalog.
UnknownProductId == "p0"
RequestedIds == ProductIds \cup {UnknownProductId}
Quantities == -1 .. MaxQty
Costs == {15, 20}
\* the catalog the store opens with
InitialCatalog == [p \in ProductIds |-> IF p = "p1" THEN 20 ELSE 15]
InitialWallets == {50, 100}
\* config.default_address, the sentinel of a user who never set an address
DefaultAddress == "ADDRESS_NOT_SET"
Addresses == {DefaultAddress, "12 Main Street"}
Reqs == 1 .. MaxInFlight

VARIABLES
    catalog,   \* "products" collection: product id -> cost
    users,     \* "users" collection: email -> [walletMoney, address]
    carts,     \* "carts" collection: email -> [exists, cartItems]
    req        \* the requests in flight: slot -> local state of the handler

vars == <<catalog, users, carts, req>>

\* ----------------------------------------------------- JavaScript numbers
\* A JavaScript number is an integer or NaN.  Stored fields of type Number
\* hold integers only (the schema's cast refuses NaN); values computed inside
\* a handler may be NaN.
Num(n) == [nan |-> FALSE, v |-> n]
NaN == [nan |-> TRUE, v |-> 0]

\* obj[name] used as an operand of arithmetic: a field the object does not
\* have reads as undefined, and ToNumber(undefined) is NaN.
NumericField(obj, name) == IF name \in DOMAIN obj THEN Num(obj[name]) ELSE NaN

Times(a, b) == IF a.nan \/ b.nan THEN NaN ELSE Num(a.v * b.v)
Plus(a, b) == IF a.nan \/ b.nan THEN NaN ELSE Num(a.v + b.v)
Minus(a, b) == IF a.nan \/ b.nan THEN NaN ELSE Num(a.v - b.v)
\* a > b: every comparison with NaN is false
GreaterThan(a, b) == ~a.nan /\ ~b.nan /\ a.v > b.v
LessThan(a, b) == ~a.nan /\ ~b.nan /\ a.v < b.v

\* parseFloat(x) of a number x: x is converted to its decimal string, which
\* is parsed back; NaN prints as "NaN", which parses to NaN.
parseFloat(x) == IF x.nan THEN NaN ELSE Num(x.v)


\* ------------------------------------------------------------- documents
\* A product document as Product.findById returns it and as a cart item
\* embeds it.  Its numeric attribute is "cost"; name, category, rating and
\* image are carried along unread and are left out.
Product(productId, cost) == [_id |-> productId, cost |-> cost]

\* Product.findById(productId): the document, or null (found = FALSE)
findById(productId) ==
    IF productId \in DOMAIN catalog
    THEN [found |-> TRUE, doc |-> Product(productId, catalog[productId])]
    ELSE [found |-> FALSE, doc |-> Product(productId, 0)]

NoCart == [exists |-> FALSE, cartItems |-> <<>>]
EmptyCart == [exists |-> TRUE, cartItems |-> <<>>]

\* Cart.findOne({ email }): the stored cart document, or null (exists = FALSE)
findOne(email) == carts[email]

\* ------------------------------------------------- outcomes of a handler
Pending == [kind |-> "pending", status |-> "", message |-> ""]
Ok == [kind |-> "ok", status |-> "", message |-> ""]
ApiError(status, message) == [kind |-> "ApiError", status |-> status, message |-> message]
\* an exception that is no ApiError: a rejected save or create
Rejected(message) == [kind |-> "Error", status |-> "", message |-> message]

NoCartNotFound == ApiError("NOT_FOUND", "User does not have a cart")
ProductNotInDb == ApiError("BAD_REQUEST", "Product doesn't exist in database")
AlreadyInCart ==
    ApiError("BAD_REQUEST",
        "Product already in cart. Use the cart sidebar to update or remove product from cart")
NoCartToUpdate ==
    ApiError("BAD_REQUEST",
        "User does not have a cart. Use POST to create cart and add a product")
ProductNotInCart == ApiError("BAD_REQUEST", "Product not in cart")
NoCartToDelete == ApiError("BAD_REQUEST", "User does not have a cart")
CartIsEmpty == ApiError("BAD_REQUEST", "Cart is empty")
AddressNotSet == ApiError("BAD_REQUEST", "Address not set")
InsufficientBalance == ApiError("BAD_REQUEST", "Wallet balance is insufficient")

\* ------------------------------------------------- cartItems, as arrays
\* Mutant of isProductInCart: only the first item is compared.
isProductInCart_FirstItemOnly(cartItems, productId) ==
    Len(cartItems) > 0 /\ cartItems[1].product._id = productId

\* cartItems.some(item => item.product._id.toString() === productId)
isProductInCart(cartItems, productId) ==
    \E i \in 1 .. Len(cartItems) : cartItems[i].product._id = productId

\* cartItems.findIndex(item => item.product._id.toString() === productId),
\* counted from 1; 0 when no item matches (-1 in the source)
findIndex(cartItems, productId) ==
    IF isProductInCart(cartItems, productId)
    THEN CHOOSE i \in 1 .. Len(cartItems) :
            /\ cartItems[i].product._id = productId
            /\ \A j \in 1 .. (i - 1) : cartItems[j].product._id # productId
    ELSE 0

\* Mutant of push: the item is put in front (unshift).
push_Unshift(cartItems, product, quantity) ==
    <<[product |-> product, quantity |-> quantity]>> \o cartItems

\* cartItems.push({ product, quantity })
push(cartItems, product, quantity) ==
    Append(cartItems, [product |-> product, quantity |-> quantity])

\* Mutant of setQuantity: every item gets the quantity.
setQuantity_EveryItem(cartItems, productId, quantity) ==
    [i \in 1 .. Len(cartItems) |-> [cartItems[i] EXCEPT !.quantity = quantity]]

\* cartItem = cartItems.find(...); cartItem.quantity = quantity
setQuantity(cartItems, productId, quantity) ==
    [i \in 1 .. Len(cartItems) |->
        IF i = findIndex(cartItems, productId)
        THEN [cartItems[i] EXCEPT !.quantity = quantity]
        ELSE cartItems[i]]

\* a filter whose test is === instead of !==: it keeps the item it should drop
filter_KeepsOnlyMatch(cartItems, productId) ==
    SelectSeq(cartItems, LAMBDA item : item.product._id = productId)

\* cartItems.filter(item => item.product._id.toString() !== productId)
filter(cartItems, productId) ==
    SelectSeq(cartItems, LAMBDA item : item.product._id # productId)

\* splice(index) without its delete count: every item from index on is removed
splice_ToEnd(cartItems, index) ==
    SubSeq(cartItems, 1, index - 1)

\* cartItems.splice(index, 1)
splice(cartItems, index) ==
    [i \in 1 .. (Len(cartItems) - 1) |->
        IF i < index THEN cartItems[i] ELSE cartItems[i + 1]]

\* cartItems.reduce((total, item) => total + item.product[field] * item.quantity, 0)
RECURSIVE reduceTotal(_, _)
reduceTotal(cartItems, field) ==
    IF cartItems = <<>>
    THEN Num(0)
    ELSE Plus(reduceTotal(SubSeq(cartItems, 1, Len(cartItems) - 1), field),
              Times(NumericField(cartItems[Len(cartItems)].product, field),
                    Num(cartItems[Len(cartItems)].quantity)))

\* a total computed from the field the embedded product does have
serviceCartTotal_ReadsCost(cartItems) == reduceTotal(cartItems, "cost")

\* the total the service's checkout computes
serviceCartTotal(cartItems) == reduceTotal(cartItems, "price")
\* the total the controller's checkout pre-check computes
controllerCartTotal(cartItems) == reduceTotal(cartItems, "cost")

\* --------------------------------------------------------------- the user
\* user.hasSetNonDefaultAddress(): the method is declared async, so a call
\* returns a promise of the comparison, not the comparison.
hasSetNonDefaultAddress(user) ==
    [promise |-> TRUE, value |-> user.address # DefaultAddress]

\* !x of JavaScript: an object (a promise included) is truthy
Not(x) == IF x.promise THEN FALSE ELSE ~x.value

\* user.walletMoney = value, on a path of schema type Number: the cast
\* refuses NaN, the path keeps its value and the document is marked invalid.
setWalletMoney(user, value) ==
    IF value.nan
    THEN [user EXCEPT !.castError = TRUE]
    ELSE [user EXCEPT !.walletMoney = value.v]


\* ------------------------------------------------------------- requests
Ops == {"getCartByUser", "addProductToCart", "updateProductInCart",
        "deleteProductFromCart", "checkout"}

\* req.user, the document the authentication step loaded for the request
UserDoc(email) ==
    [walletMoney |-> users[email].walletMoney,
     address     |-> users[email].address,
     castError   |-> FALSE]

\* The local state of a handler:
\*   pc                 where the handler stands: "idle", the operation's name
\*                      (called, nothing awaited yet), a step name, or "done"
\*   op, email, productId, quantity   the call
\*   user               req.user as the handler holds it in memory
\*   cart, product      the handler's local variables cart and product
\*   returned           what the handler returns: "cart", "null" or nothing
\*   cartTotal          checkout's local variable cartTotal
\*   userSave, cartSave the state of checkout's two saves; cartSave is
\*                      "rejected" too when the store refused add's save
\*   result             Pending, Ok or the exception thrown
\*   pre                the stored cart and wallet of the user when the call was
\*                      made (a history field, read by the properties only)
\*   loaded, removed    the items checkout's findOne gave, and the stored
\*                      items its cart.save() replaced (history fields)
Idle ==
    [pc |-> "idle", op |-> "", email |-> "", productId |-> "", quantity |-> 0,
     user |-> [walletMoney |-> 0, address |-> "", castError |-> FALSE],
     cart |-> NoCart, product |-> Product("", 0), returned |-> "none",
     cartTotal |-> Num(0),
     userSave |-> "none", cartSave |-> "none",
     pre |-> [cart |-> NoCart, walletMoney |-> 0],
     loaded |-> <<>>, removed |-> <<>>,
     result |-> Pending]

\* the handler throws `error` (or returns, with result Ok)
Finish(q, result) == [q EXCEPT !.pc = "done", !.result = result]

TypeOK ==
    /\ catalog \in [ProductIds -> Costs]
    /\ \A u \in Users :
        /\ users[u].walletMoney \in Int
        /\ users[u].address \in Addresses
        /\ carts[u].exists \in BOOLEAN
        /\ ~carts[u].exists => carts[u].cartItems = <<>>
    /\ \A r \in Reqs : req[r].pc = "idle" => req[r] = Idle

Init ==
    /\ catalog = InitialCatalog
    /\ users \in [Users -> [walletMoney : InitialWallets, address : Addresses]]
    /\ carts = [u \in Users |-> NoCart]
    /\ req = [r \in Reqs |-> Idle]

\* A request arrives and takes the first free slot: the route's handler calls
\* the service with req.user and the body's productId and quantity.
Receive(r, email, op, productId, quantity) ==
    /\ req[r].pc = "idle"
    /\ \A s \in 1 .. (r - 1) : req[s].pc # "idle"
    /\ req' = [req EXCEPT ![r] =
            [Idle EXCEPT !.pc = op, !.op = op, !.email = email,
                         !.productId = productId, !.quantity = quantity,
                         !.user = UserDoc(email),
                         !.pre = [cart |-> carts[email],
                                  walletMoney |-> users[email].walletMoney]]]
    /\ UNCHANGED <<catalog, users, carts>>

\* The response is sent; the slot is free again.
Respond(r) ==
    /\ req[r].pc = "done"
    /\ req' = [req EXCEPT ![r] = Idle]
    /\ UNCHANGED <<catalog, users, carts>>

\* The catalog is maintained outside the cart service: a product's cost
\* may change at any time.
UpdateProductCost(productId, cost) ==
    /\ catalog[productId] # cost
    /\ catalog' = [catalog EXCEPT ![productId] = cost]
    /\ UNCHANGED <<users, carts, req>>

\* ------------------------------------------------------- getCartByUser
getCartByUser(r) ==
    /\ req[r].pc = "getCartByUser"
    /\ LET cart == findOne(req[r].email) IN
        req' = [req EXCEPT ![r] =
            IF ~cart.exists
            THEN Finish(@, NoCartNotFound)
            ELSE Finish([@ EXCEPT !.cart = cart, !.returned = "cart"], Ok)]
    /\ UNCHANGED <<catalog, users, carts>>

\* ----------------------------------------------------- addProductToCart
\* let cart = await Cart.findOne({ email: user.email })
addFindCart(r) ==
    /\ req[r].pc = "addProductToCart"
    /\ req' = [req EXCEPT ![r] = [@ EXCEPT !.cart = findOne(req[r].email),
                                           !.pc = "add_findProduct"]]
    /\ UNCHANGED <<catalog, users, carts>>

\* Mutant of addCheckAndPush: the duplicate check is left out.
addCheckAndPush_NoDuplicateCheck(q, cart, product) ==
    [q EXCEPT !.cart = [cart EXCEPT !.cartItems =
                            Append(cart.cartItems,
                                   [product |-> product, quantity |-> q.quantity])],
              !.product = product,
              !.pc = "add_save"]

\* The duplicate check and the push, on the in-memory cart.
addCheckAndPush(q, cart, product) ==
    IF isProductInCart(cart.cartItems, q.productId)
    THEN Finish([q EXCEPT !.cart = cart, !.product = product], AlreadyInCart)
    ELSE [q EXCEPT !.cart = [cart EXCEPT !.cartItems =
                                push(cart.cartItems, product, q.quantity)],
                   !.product = product,
                   !.pc = "add_save"]

\* addProductToCart with the cart created before the product is checked
addFindProduct_CreateFirst(r) ==
    /\ req[r].pc = "add_findProduct"
    /\ LET product == findById(req[r].productId)
           email == req[r].email
           create == ~req[r].cart.exists /\ ~carts[email].exists
       IN
        /\ carts' = IF create THEN [carts EXCEPT ![email] = EmptyCart] ELSE carts
        /\ req' = [req EXCEPT ![r] =
            IF ~product.found THEN Finish(@, ProductNotInDb)
            ELSE IF ~@.cart.exists
                 THEN addCheckAndPush(@, EmptyCart, product.doc)
                 ELSE addCheckAndPush(@, @.cart, product.doc)]
    /\ UNCHANGED <<catalog, users>>

\* const product = await Product.findById(productId), up to the next await
addFindProduct(r) ==
    /\ req[r].pc = "add_findProduct"
    /\ LET product == findById(req[r].productId) IN
        req' = [req EXCEPT ![r] =
            IF ~product.found THEN Finish(@, ProductNotInDb)
            ELSE IF ~@.cart.exists
                 THEN [@ EXCEPT !.pc = "add_create", !.product = product.doc]
                 ELSE addCheckAndPush(@, @.cart, product.doc)]
    /\ UNCHANGED <<catalog, users, carts>>


\* cart = await Cart.create({ email, cartItems: [], paymentOption }), up to
\* the next await.  The collection holds one cart per email: a create for an
\* email that has a cart by now is refused by the unique index.
addCreate(r) ==
    /\ req[r].pc = "add_create"
    /\ LET email == req[r].email IN
        IF carts[email].exists
        THEN /\ req' = [req EXCEPT ![r] = Finish(@, Rejected("E11000 duplicate key"))]
             /\ UNCHANGED carts
        ELSE /\ carts' = [carts EXCEPT ![email] = EmptyCart]
             /\ req' = [req EXCEPT ![r] = addCheckAndPush(@, EmptyCart, @.product)]
    /\ UNCHANGED <<catalog, users>>

\* const updatedCart = await cart.save(); return updatedCart.  The cart is
\* written, unless the store fails (dbUp): then the handler throws and the
\* stored cart stays as it is, the one Cart.create made included.
addSave(r, dbUp) ==
    /\ req[r].pc = "add_save"
    /\ IF ~dbUp
       THEN /\ req' = [req EXCEPT ![r] =
                    Finish([@ EXCEPT !.cartSave = "rejected"], Rejected("save failed"))]
            /\ UNCHANGED carts
       ELSE /\ carts' = [carts EXCEPT ![req[r].email] = req[r].cart]
            /\ req' = [req EXCEPT ![r] = Finish([@ EXCEPT !.returned = "cart"], Ok)]
    /\ UNCHANGED <<catalog, users>>

\* --------------------------------------------------- updateProductInCart
\* updateProductInCart without its check of the cart: the product is looked
\* up next, whatever findOne gave
updateFindCart_NoCartCheck(r) ==
    /\ req[r].pc = "updateProductInCart"
    /\ LET cart == findOne(req[r].email) IN
        req' = [req EXCEPT ![r] =
            [@ EXCEPT !.cart = cart, !.pc = "update_findProduct"]]
    /\ UNCHANGED <<catalog, users, carts>>

\* const cart = await Cart.findOne({ email: user.email })
updateFindCart(r) ==
    /\ req[r].pc = "updateProductInCart"
    /\ LET cart == findOne(req[r].email) IN
        req' = [req EXCEPT ![r] =
            IF ~cart.exists
            THEN Finish(@, NoCartToUpdate)
            ELSE [@ EXCEPT !.cart = cart, !.pc = "update_findProduct"]]
    /\ UNCHANGED <<catalog, users, carts>>

\* const product = await Product.findById(productId), up to cart.save()
updateFindProduct(r) ==
    /\ req[r].pc = "update_findProduct"
    /\ LET product == findById(req[r].productId)
           productId == req[r].productId
           quantity == req[r].quantity
           items == req[r].cart.cartItems
       IN
        req' = [req EXCEPT ![r] =
            IF ~product.found THEN Finish(@, ProductNotInDb)
            ELSE IF findIndex(items, productId) = 0
                 THEN Finish(@, ProductNotInCart)
            ELSE IF quantity > 0
                 THEN [@ EXCEPT !.cart.cartItems = setQuantity(items, productId, quantity),
                                !.returned = "cart",
                                !.pc = "update_save"]
                 ELSE [@ EXCEPT !.cart.cartItems = filter(items, productId),
                                !.returned = "null",
                                !.pc = "update_save"]]
    /\ UNCHANGED <<catalog, users, carts>>

\* await cart.save(); return cart, or return null
updateSave(r) ==
    /\ req[r].pc = "update_save"
    /\ carts' = [carts EXCEPT ![req[r].email] = req[r].cart]
    /\ req' = [req EXCEPT ![r] = Finish(@, Ok)]
    /\ UNCHANGED <<catalog, users>>

\* ------------------------------------------------- deleteProductFromCart
\* deleteProductFromCart without its "Product not in cart" check: splice(-1, 1)
\* removes the last item
deleteFindCart_NoIndexCheck(r) ==
    /\ req[r].pc = "deleteProductFromCart"
    /\ LET cart == findOne(req[r].email)
           productIndex == findIndex(cart.cartItems, req[r].productId)
           index == IF productIndex = 0 THEN Len(cart.cartItems) ELSE productIndex
       IN
        req' = [req EXCEPT ![r] =
            IF ~cart.exists THEN Finish(@, NoCartToDelete)
            ELSE [@ EXCEPT !.cart = [cart EXCEPT !.cartItems =
                                        IF index = 0 THEN <<>>
                                        ELSE splice(cart.cartItems, index)],
                           !.pc = "delete_save"]]
    /\ UNCHANGED <<catalog, users, carts>>

\* const cart = await Cart.findOne({ email: user.email }), up to cart.save()
deleteFindCart(r) ==
    /\ req[r].pc = "deleteProductFromCart"
    /\ LET cart == findOne(req[r].email)
           productIndex == findIndex(cart.cartItems, req[r].productId)
       IN
        req' = [req EXCEPT ![r] =
            IF ~cart.exists THEN Finish(@, NoCartToDelete)
            ELSE IF productIndex = 0
                 THEN Finish([@ EXCEPT !.cart = cart], ProductNotInCart)
            ELSE [@ EXCEPT !.cart = [cart EXCEPT !.cartItems =
                                        splice(cart.cartItems, productIndex)],
                           !.pc = "delete_save"]]
    /\ UNCHANGED <<catalog, users, carts>>

\* await cart.save(); return cart
deleteSave(r) ==
    /\ req[r].pc = "delete_save"
    /\ carts' = [carts EXCEPT ![req[r].email] = req[r].cart]
    /\ req' = [req EXCEPT ![r] = Finish([@ EXCEPT !.returned = "cart"], Ok)]
    /\ UNCHANGED <<catalog, users>>


\* ---------------------------------------------------------------- checkout
\* checkout with the new walletMoney computed from item.product.cost, and
\* the balance check left on the total it has
checkoutFindCart_DebitsByCost(r) ==
    /\ req[r].pc = "checkout"
    /\ LET cart == findOne(req[r].email)
           user == req[r].user
           cartTotal == serviceCartTotal(cart.cartItems)
           walletBalance == parseFloat(Num(user.walletMoney))
           totalCost == parseFloat(cartTotal)
           debit == parseFloat(controllerCartTotal(cart.cartItems))
       IN
        req' = [req EXCEPT ![r] =
            IF ~cart.exists THEN Finish(@, NoCartNotFound)
            ELSE IF Len(cart.cartItems) = 0
                 THEN Finish([@ EXCEPT !.cart = cart], CartIsEmpty)
            ELSE IF Not(hasSetNonDefaultAddress(user))
                 THEN Finish([@ EXCEPT !.cart = cart], AddressNotSet)
            ELSE IF GreaterThan(totalCost, walletBalance)
                 THEN Finish([@ EXCEPT !.cart = cart, !.cartTotal = cartTotal],
                             InsufficientBalance)
            ELSE [@ EXCEPT !.user = setWalletMoney(user, Minus(walletBalance, debit)),
                           !.cart = [cart EXCEPT !.cartItems = <<>>],
                           !.cartTotal = cartTotal,
                           !.loaded = cart.cartItems,
                           !.userSave = "pending",
                           !.cartSave = "pending",
                           !.pc = "checkout_save"]]
    /\ UNCHANGED <<catalog, users, carts>>

\* const cart = await Cart.findOne({ email: user.email }), the checks, the
\* total, the two assignments, and the two saves started by
\* Promise.all([user.save(), cart.save()])
checkoutFindCart(r) ==
    /\ req[r].pc = "checkout"
    /\ LET cart == findOne(req[r].email)
           user == req[r].user
           cartTotal == serviceCartTotal(cart.cartItems)
           walletBalance == parseFloat(Num(user.walletMoney))
           totalCost == parseFloat(cartTotal)
       IN
        req' = [req EXCEPT ![r] =
            IF ~cart.exists THEN Finish(@, NoCartNotFound)
            ELSE IF Len(cart.cartItems) = 0
                 THEN Finish([@ EXCEPT !.cart = cart], CartIsEmpty)
            ELSE IF Not(hasSetNonDefaultAddress(user))
                 THEN Finish([@ EXCEPT !.cart = cart], AddressNotSet)
            ELSE IF GreaterThan(totalCost, walletBalance)
                 THEN Finish([@ EXCEPT !.cart = cart, !.cartTotal = cartTotal],
                             InsufficientBalance)
            ELSE [@ EXCEPT !.user = setWalletMoney(user, Minus(walletBalance, totalCost)),
                           !.cart = [cart EXCEPT !.cartItems = <<>>],
                           !.cartTotal = cartTotal,
                           !.loaded = cart.cartItems,
                           !.userSave = "pending",
                           !.cartSave = "pending",
                           !.pc = "checkout_save"]]
    /\ UNCHANGED <<catalog, users, carts>>

\* Promise.all: the first rejection is the handler's exception; with both
\* saves fulfilled the handler returns the cart.  A save that is still under
\* way when the other one is rejected is carried out all the same.
settle(q) ==
    LET result ==
            IF q.result # Pending THEN q.result
            ELSE IF q.userSave = "invalid" THEN Rejected("User validation failed")
            ELSE IF "rejected" \in {q.userSave, q.cartSave} THEN Rejected("save failed")
            ELSE IF q.userSave = "saved" /\ q.cartSave = "saved" THEN Ok
            ELSE Pending
    IN [q EXCEPT !.result = result,
                 !.returned = IF result = Ok THEN "cart" ELSE "none",
                 !.pc = IF "pending" \in {q.userSave, q.cartSave}
                        THEN "checkout_save" ELSE "done"]

\* user.save(): validation refuses a document with a failed cast; otherwise
\* the modified path walletMoney is written, unless the store fails (dbUp).
checkoutUserSave(r, dbUp) ==
    /\ req[r].pc = "checkout_save"
    /\ req[r].userSave = "pending"
    /\ LET email == req[r].email
           user == req[r].user
       IN
        IF user.castError
        THEN /\ req' = [req EXCEPT ![r] = settle([@ EXCEPT !.userSave = "invalid"])]
             /\ UNCHANGED users
        ELSE IF ~dbUp
        THEN /\ req' = [req EXCEPT ![r] = settle([@ EXCEPT !.userSave = "rejected"])]
             /\ UNCHANGED users
        ELSE /\ users' = [users EXCEPT ![email].walletMoney = user.walletMoney]
             /\ req' = [req EXCEPT ![r] = settle([@ EXCEPT !.userSave = "saved"])]
    /\ UNCHANGED <<catalog, carts>>

\* cart.save(): the emptied cart is written, unless the store fails (dbUp).
checkoutCartSave(r, dbUp) ==
    /\ req[r].pc = "checkout_save"
    /\ req[r].cartSave = "pending"
    /\ IF ~dbUp
       THEN /\ req' = [req EXCEPT ![r] = settle([@ EXCEPT !.cartSave = "rejected"])]
            /\ UNCHANGED carts
       ELSE /\ carts' = [carts EXCEPT ![req[r].email] = req[r].cart]
            /\ req' = [req EXCEPT ![r] =
                    settle([@ EXCEPT !.cartSave = "saved",
                                     !.removed = carts[req[r].email].cartItems])]
    /\ UNCHANGED <<catalog, users>>

\* ------------------------------------------------------- specifications
\* The body a route hands to the service: operations that take no product or
\* no quantity are called without one.
Calls ==
    {<<op, p, q>> \in Ops \X (RequestedIds \cup {""}) \X Quantities :
        /\ (op \in {"getCartByUser", "checkout"}) <=> (p = "")
        /\ (op \in {"addProductToCart", "updateProductInCart"}) \/ q = 0}

Work(r) ==
    \/ getCartByUser(r)
    \/ addFindCart(r)
    \/ addFindProduct(r)
    \/ addCreate(r)
    \/ \E dbUp \in BOOLEAN : addSave(r, dbUp)
    \/ updateFindCart(r)
    \/ updateFindProduct(r)
    \/ updateSave(r)
    \/ deleteFindCart(r)
    \/ deleteSave(r)
    \/ checkoutFindCart(r)
    \/ \E dbUp \in BOOLEAN : checkoutUserSave(r, dbUp)
    \/ \E dbUp \in BOOLEAN : checkoutCartSave(r, dbUp)

Step(r) == Work(r) \/ Respond(r)

Environment ==
    \E p \in ProductIds, c \in Costs : UpdateProductCost(p, c)

\* One request at a time: a request is received only when none is in flight.
NoneInFlight == \A r \in Reqs : req[r].pc = "idle"

Next ==
    \/ \E r \in Reqs, u \in Users, c \in Calls :
            NoneInFlight /\ Receive(r, u, c[1], c[2], c[3])
    \/ \E r \in Reqs : Step(r)
    \/ Environment

Spec == Init /\ [][Next]_vars

\* Requests interleave at their awaits, up to MaxInFlight at a time; the
\* catalog is held fixed.
ConcNext ==
    \/ \E r \in Reqs, u \in Users, c \in Calls : Receive(r, u, c[1], c[2], c[3])
    \/ \E r \in Reqs : Step(r)

ConcSpec == Init /\ [][ConcNext]_vars

\* A race: a checkout and one other call of the same user, received in
\* either order and interleaved at their awaits in every way, on a cart that
\* earlier calls have left in the store.
CartItemsOf(productIds) ==
    {items \in [1 .. Len(productIds) -> [product : {Product(p, InitialCatalog[p]) :
                                                    p \in ProductIds},
                                        quantity : Quantities]] :
        \A i \in 1 .. Len(productIds) : items[i].product._id = productIds[i]}

RaceCarts ==
    {NoCart} \cup
    {[exists |-> TRUE, cartItems |-> items] :
        items \in UNION {CartItemsOf(ids) :
                            ids \in {<<>>, <<"p1">>, <<"p2">>,
                                     <<"p1", "p2">>, <<"p2", "p1">>}}}

RaceInit ==
    /\ catalog = InitialCatalog
    /\ users \in [Users -> [walletMoney : InitialWallets, address : Addresses]]
    /\ carts \in [Users -> RaceCarts]
    /\ req = [r \in Reqs |-> Idle]

RaceReceive(r, email, op, productId, quantity) ==
    /\ r \in {1, 2}
    /\ r = 2 => "checkout" \in {op, req[1].op}
    /\ Receive(r, email, op, productId, quantity)

RaceNext ==
    \/ \E r \in Reqs, u \in Users, c \in Calls : RaceReceive(r, u, c[1], c[2], c[3])
    \/ \E r \in Reqs : Work(r)

RaceSpec == RaceInit /\ [][RaceNext]_vars

\* ---------------------------------------------------------------- claims
\* The sum over the cart items of the embedded product's cost times the
\* quantity: the cart total the specification means.
RECURSIVE CartTotal(_)
CartTotal(cartItems) ==
    IF cartItems = <<>> THEN 0
    ELSE CartTotal(Tail(cartItems))
            + Head(cartItems).product.cost * Head(cartItems).quantity

\* The handler in slot r has finished a call of op.
Finished(r, op) == req[r].pc = "done" /\ req[r].op = op

\* The store itself refused a save of the call.
StoreFailed(q) == "rejected" \in {q.userSave, q.cartSave}

\* Every item of the cart has a positive quantity, as the data model asks.
PositiveQuantities(cartItems) ==
    \A i \in 1 .. Len(cartItems) : cartItems[i].quantity > 0

\* checkout passed all its checks and started its two saves.
PassedChecks(q) == q.op = "checkout" /\ q.userSave # "none"

Debited(q) == users[q.email].walletMoney # q.pre.walletMoney
Emptied(q) == carts[q.email].cartItems = <<>>

\* C1: a checkout that runs alone, on an existing non-empty cart, with a
\* non-default address and cartTotal <= walletMoney, succeeds, leaves the
\* stored cart empty and the stored walletMoney lower by cartTotal.
C1_CheckoutDebitsAndEmpties ==
    \A r \in Reqs :
        LET q == req[r]
            total == CartTotal(q.pre.cart.cartItems)
        IN
        (/\ Finished(r, "checkout")
         /\ q.pre.cart.exists
         /\ q.pre.cart.cartItems # <<>>
         /\ PositiveQuantities(q.pre.cart.cartItems)
         /\ q.user.address # DefaultAddress
         /\ total <= q.pre.walletMoney
         /\ ~StoreFailed(q))
        => /\ q.result = Ok
           /\ carts[q.email].cartItems = <<>>
           /\ users[q.email].walletMoney = q.pre.walletMoney - total

\* C2: from the moment a checkout has passed its checks, the stored wallet
\* is debited exactly when the stored cart is emptied: no state shows one
\* change without the other.
C2_CheckoutAtomicToObservers ==
    \A r \in Reqs :
        LET q == req[r] IN
        (/\ PassedChecks(q)
         /\ PositiveQuantities(q.pre.cart.cartItems)
         /\ q.user.address # DefaultAddress
         /\ CartTotal(q.pre.cart.cartItems) <= q.pre.walletMoney
         /\ ~StoreFailed(q))
        => (Debited(q) <=> Emptied(q))

\* C3: when checkout has passed its checks and exactly one of its two saves
\* fails, the outcome is not a partial apply: not a cleared cart with an
\* undebited wallet, nor a debited wallet with an uncleared cart.
C3_NoPartialApply ==
    \A r \in Reqs :
        LET q == req[r] IN
        (/\ Finished(r, "checkout")
         /\ PassedChecks(q)
         /\ PositiveQuantities(q.pre.cart.cartItems)
         /\ q.user.address # DefaultAddress
         /\ (q.userSave = "saved") # (q.cartSave = "saved"))
        => (Debited(q) <=> Emptied(q))

\* C4: checkout of a user whose address is the default sentinel, on an
\* existing non-empty cart, fails with "Address not set" and leaves the
\* stored wallet and the stored cart unchanged.
C4_DefaultAddressRejected ==
    \A r \in Reqs :
        LET q == req[r] IN
        (/\ Finished(r, "checkout")
         /\ q.pre.cart.exists
         /\ q.pre.cart.cartItems # <<>>
         /\ PositiveQuantities(q.pre.cart.cartItems)
         /\ q.user.address = DefaultAddress
         /\ ~StoreFailed(q))
        => /\ q.result = AddressNotSet
           /\ carts[q.email] = q.pre.cart
           /\ users[q.email].walletMoney = q.pre.walletMoney

\* C5: checkout on a non-empty cart with a non-default address whose
\* cartTotal exceeds walletMoney fails with "Wallet balance is insufficient"
\* and leaves the stored wallet and the stored cart unchanged.
C5_InsufficientBalanceRejected ==
    \A r \in Reqs :
        LET q == req[r] IN
        (/\ Finished(r, "checkout")
         /\ q.pre.cart.exists
         /\ q.pre.cart.cartItems # <<>>
         /\ PositiveQuantities(q.pre.cart.cartItems)
         /\ q.user.address # DefaultAddress
         /\ CartTotal(q.pre.cart.cartItems) > q.pre.walletMoney
         /\ ~StoreFailed(q))
        => /\ q.result = InsufficientBalance
           /\ carts[q.email] = q.pre.cart
           /\ users[q.email].walletMoney = q.pre.walletMoney

\* Some item of the cart holds the product.
HoldsProduct(cartItems, productId) ==
    productId \in {cartItems[i].product._id : i \in 1 .. Len(cartItems)}

\* No two items of the cart hold the same product.
UniqueProducts(cartItems) ==
    \A i, j \in 1 .. Len(cartItems) :
        i # j => cartItems[i].product._id # cartItems[j].product._id

\* C6: after any sequence of addProductToCart, updateProductInCart,
\* deleteProductFromCart and checkout calls, the product identifiers of
\* every stored cart are pairwise distinct.
C6_UniqueProductIds ==
    \A u \in Users : UniqueProducts(carts[u].cartItems)

\* A second add of a product was refused on a cart of two items.
C6_Witness ==
    \E r \in Reqs :
        /\ Finished(r, "addProductToCart")
        /\ req[r].result = AlreadyInCart
        /\ Len(carts[req[r].email].cartItems) = 2

\* C7: after any sequence of calls with arbitrary integer quantities, every
\* item of every stored cart has quantity > 0.
C7_QuantitiesPositive ==
    \A u \in Users : PositiveQuantities(carts[u].cartItems)

\* C8: addProductToCart of a catalog product the cart already holds fails
\* with "Product already in cart..." and leaves the stored cart unchanged,
\* whatever the quantity asked for.
C8_DuplicateAddRejected ==
    \A r \in Reqs :
        LET q == req[r] IN
        (/\ Finished(r, "addProductToCart")
         /\ q.productId \in ProductIds
         /\ HoldsProduct(q.pre.cart.cartItems, q.productId))
        => /\ q.result = AlreadyInCart
           /\ carts[q.email] = q.pre.cart

\* A product held as the second of two items was added again, with a
\* quantity other than the one the cart holds.
C8_Witness ==
    \E r \in Reqs :
        LET q == req[r] IN
        /\ Finished(r, "addProductToCart")
        /\ Len(q.pre.cart.cartItems) = 2
        /\ q.pre.cart.cartItems[2].product._id = q.productId
        /\ q.pre.cart.cartItems[2].quantity # q.quantity
        /\ q.result = AlreadyInCart

\* C9: addProductToCart of a catalog product the cart does not hold creates
\* the cart if it is absent and appends one item at the end, which holds the
\* product as the catalog has it at the lookup and the quantity given; the
\* items present before stay, in their order (the store accepting the save).
C9_AddStored ==
    \A r \in Reqs :
        LET q == req[r] IN
        (/\ Finished(r, "addProductToCart")
         /\ q.productId \in ProductIds
         /\ ~HoldsProduct(q.pre.cart.cartItems, q.productId)
         /\ ~StoreFailed(q))
        => /\ q.result = Ok
           /\ carts[q.email].exists
           /\ carts[q.email].cartItems =
                q.pre.cart.cartItems \o <<[product |-> q.product, quantity |-> q.quantity]>>
           /\ Len(carts[q.email].cartItems) = Len(q.pre.cart.cartItems) + 1
           /\ q.product._id = q.productId

C9_AddLooksUpCatalog ==
    \A r \in Reqs :
        (/\ req[r].pc = "add_findProduct"
         /\ req'[r].pc # "add_findProduct"
         /\ req[r].productId \in ProductIds)
        => req'[r].product = [_id |-> req[r].productId, cost |-> catalog[req[r].productId]]

C9_AddAppendsCatalogProduct == []C9_AddStored /\ [][C9_AddLooksUpCatalog]_vars

\* A product was added behind an item already there, with a cost the
\* catalog did not open with.
C9_Witness ==
    \E r \in Reqs :
        LET q == req[r] IN
        /\ Finished(r, "addProductToCart")
        /\ q.result = Ok
        /\ Len(q.pre.cart.cartItems) = 1
        /\ Len(carts[q.email].cartItems) = 2
        /\ q.product.cost # InitialCatalog[q.productId]

\* C10: updateProductInCart with a quantity > 0, for a product the cart
\* holds, sets that item's quantity, returns the updated cart and leaves the
\* number of items, their order, the other quantities and every embedded
\* product unchanged.
C10_UpdateSetsOnlyQuantity ==
    \A r \in Reqs :
        LET q == req[r]
            before == q.pre.cart.cartItems
            after == carts[q.email].cartItems
        IN
        (/\ Finished(r, "updateProductInCart")
         /\ q.productId \in DOMAIN catalog
         /\ HoldsProduct(before, q.productId)
         /\ q.quantity > 0)
        => /\ q.result = Ok
           /\ q.returned = "cart"
           /\ q.cart = carts[q.email]
           /\ Len(after) = Len(before)
           /\ \A i \in 1 .. Len(before) :
                /\ after[i].product = before[i].product
                /\ after[i].quantity =
                        IF before[i].product._id = q.productId
                        THEN q.quantity ELSE before[i].quantity

\* The first of two items was given a new quantity.
C10_Witness ==
    \E r \in Reqs :
        LET q == req[r] IN
        /\ Finished(r, "updateProductInCart")
        /\ q.result = Ok
        /\ q.quantity > 0
        /\ Len(q.pre.cart.cartItems) = 2
        /\ q.pre.cart.cartItems[1].product._id = q.productId
        /\ q.pre.cart.cartItems[1].quantity # q.quantity
        /\ q.pre.cart.cartItems[2].quantity # q.quantity

\* the items of cartItems other than those of productId, in their order
Without(cartItems, productId) ==
    SelectSeq(cartItems, LAMBDA item : item.product._id # productId)

\* C11: an updateProductInCart(user, productId, q) with q <= 0 on a cart that
\* holds productId removes that item and no other: the stored cart has one
\* item less, the remaining items are the former ones in their order, and
\* the call returns null (the "removed" sentinel) instead of the cart.
C11_UpdateNonPositiveRemoves ==
    \A r \in Reqs :
        LET q == req[r]
            before == q.pre.cart.cartItems
            after == carts[q.email].cartItems
        IN
        (/\ Finished(r, "updateProductInCart")
         /\ q.productId \in DOMAIN catalog
         /\ HoldsProduct(before, q.productId)
         /\ q.quantity <= 0)
        => /\ q.result = Ok
           /\ q.returned = "null"
           /\ carts[q.email].exists
           /\ after = Without(before, q.productId)
           /\ Len(after) = Len(before) - 1

\* The second of two items was removed by an update with a negative quantity.
C11_Witness ==
    \E r \in Reqs :
        LET q == req[r] IN
        /\ Finished(r, "updateProductInCart")
        /\ q.result = Ok
        /\ q.quantity < 0
        /\ Len(q.pre.cart.cartItems) = 2
        /\ q.pre.cart.cartItems[2].product._id = q.productId
        /\ Len(carts[q.email].cartItems) = 1

\* C12: a deleteProductFromCart(user, productId) on an existing cart that
\* does not hold productId fails with "Product not in cart" and leaves the
\* stored cart as it was; and a delete that succeeded leaves a cart without
\* productId, so that a second delete of the same product, with no add in
\* between, meets the first case and fails with that error.
C12_DeleteOfAbsentProductFails ==
    \A r \in Reqs :
        LET q == req[r]
            before == q.pre.cart.cartItems
        IN
        /\ (/\ Finished(r, "deleteProductFromCart")
            /\ q.pre.cart.exists
            /\ ~HoldsProduct(before, q.productId))
           => /\ q.result = ProductNotInCart
              /\ carts[q.email] = q.pre.cart
        /\ (/\ Finished(r, "deleteProductFromCart")
            /\ q.result = Ok)
           => /\ carts[q.email].exists
              /\ ~HoldsProduct(carts[q.email].cartItems, q.productId)

\* A delete of a catalog product failed on a cart that holds another product
\* only, as the second of two deletes of the same product does.
C12_Witness ==
    \E r \in Reqs :
        LET q == req[r] IN
        /\ Finished(r, "deleteProductFromCart")
        /\ q.productId \in DOMAIN catalog
        /\ q.pre.cart.exists
        /\ Len(q.pre.cart.cartItems) >= 1
        /\ ~HoldsProduct(q.pre.cart.cartItems, q.productId)
        /\ q.result = ProductNotInCart
        /\ carts[q.email] = q.pre.cart

\* C13: a deleteProductFromCart(user, productId) on a cart that holds
\* productId removes the one item of that product: every other item stays,
\* with its quantity and in its order, the cart is stored, and the call
\* returns the stored cart.
C13_DeleteRemovesOnlyThatItem ==
    \A r \in Reqs :
        LET q == req[r]
            before == q.pre.cart.cartItems
            after == carts[q.email].cartItems
        IN
        (/\ Finished(r, "deleteProductFromCart")
         /\ HoldsProduct(before, q.productId))
        => /\ q.result = Ok
           /\ q.returned = "cart"
           /\ q.cart = carts[q.email]
           /\ carts[q.email].exists
           /\ after = Without(before, q.productId)
           /\ Len(after) = Len(before) - 1

\* The first of two items was deleted and the second one stayed.
C13_Witness ==
    \E r \in Reqs :
        LET q == req[r] IN
        /\ Finished(r, "deleteProductFromCart")
        /\ q.result = Ok
        /\ Len(q.pre.cart.cartItems) = 2
        /\ q.pre.cart.cartItems[1].product._id = q.productId
        /\ carts[q.email].cartItems = <<q.pre.cart.cartItems[2]>>

\* C16: an updateProductInCart(user, productId, quantity) for a user without
\* a cart fails with "User does not have a cart. Use POST to create cart and
\* add a product", whatever productId (one that is not in the catalog
\* included) and quantity are, and the user has no cart afterwards.
C16_UpdateWithoutCartFails ==
    \A r \in Reqs :
        LET q == req[r] IN
        (/\ Finished(r, "updateProductInCart")
         /\ ~q.pre.cart.exists)
        => /\ q.result = NoCartToUpdate
           /\ ~carts[q.email].exists

\* An update of a product that is not in the catalog, for a user without a
\* cart, has failed for want of the cart.
C16_Witness ==
    \E r \in Reqs :
        LET q == req[r] IN
        /\ Finished(r, "updateProductInCart")
        /\ ~q.pre.cart.exists
        /\ q.productId \notin DOMAIN catalog
        /\ q.quantity > 0
        /\ q.result = NoCartToUpdate
        /\ ~carts[q.email].exists

\* C15: the service's checkout arithmetic reads the field of the embedded
\* product that addProductToCart filled in, so for every stored cart the
\* total the service computes equals the total the controller's pre-check
\* computes (stated for the carts the data model allows, those with positive
\* quantities).
C15_ServiceTotalIsControllerTotal ==
    \A u \in Users :
        (carts[u].exists /\ PositiveQuantities(carts[u].cartItems))
        => serviceCartTotal(carts[u].cartItems) =
                controllerCartTotal(carts[u].cartItems)

\* Some item of the cart carries a cost that is not the catalog's cost of its
\* product any more.
StaleSnapshot(cartItems) ==
    \E i \in 1 .. Len(cartItems) :
        /\ cartItems[i].product._id \in DOMAIN catalog
        /\ cartItems[i].product.cost # catalog[cartItems[i].product._id]

\* C14: the price charged at checkout is the price at add time.  When the
\* catalog's price of a product has changed since the product was added
\* (with any updates of the item in between), a checkout that passes its
\* checks computes cartTotal from the costs embedded in the cart, and that
\* total is what it takes from the wallet.
C14_CheckoutChargesSnapshotPrice ==
    \A r \in Reqs :
        LET q == req[r]
            before == q.pre.cart.cartItems
        IN
        (/\ Finished(r, "checkout")
         /\ PassedChecks(q)
         /\ ~StoreFailed(q)
         /\ q.user.address # DefaultAddress
         /\ PositiveQuantities(before)
         /\ StaleSnapshot(before)
         /\ CartTotal(before) <= q.pre.walletMoney)
        => /\ q.cartTotal = Num(CartTotal(before))
           /\ users[q.email].walletMoney = q.pre.walletMoney - CartTotal(before)

\* C20 as it is claimed: an addProductToCart that fails, for whatever reason,
\* leaves the Cart Store as it was.
C20_FailedAddHasNoEffect ==
    \A r \in Reqs :
        LET q == req[r] IN
        (Finished(r, "addProductToCart") /\ q.result # Ok)
        => carts[q.email] = q.pre.cart

\* C20, amended: an addProductToCart that fails one of its checks (product
\* not in the catalog, product already in the cart) leaves the Cart Store as
\* it was; in particular, for a user without a cart, an add of a productId
\* that is not in the catalog fails with "Product doesn't exist in database"
\* and no cart is created.  An add that fails in any way leaves the stored
\* items as they were (one that fails at its save may leave behind the empty
\* cart it created).
C20_FailedCheckOfAddHasNoEffect ==
    \A r \in Reqs :
        LET q == req[r] IN
        Finished(r, "addProductToCart")
        => /\ q.result \in {ProductNotInDb, AlreadyInCart}
                => carts[q.email] = q.pre.cart
           /\ (~q.pre.cart.exists /\ q.productId \notin DOMAIN catalog)
                => (q.result = ProductNotInDb /\ ~carts[q.email].exists)
           /\ q.result # Ok
                => carts[q.email].cartItems = q.pre.cart.cartItems

\* An add of a product that is not in the catalog failed for a user without
\* a cart, and the user still has none.
C20_Witness ==
    \E r \in Reqs :
        LET q == req[r] IN
        /\ Finished(r, "addProductToCart")
        /\ ~q.pre.cart.exists
        /\ q.productId \notin DOMAIN catalog
        /\ q.result = ProductNotInDb
        /\ ~carts[q.email].exists

\* C18: checkout never credits the wallet.  Whatever cart add, update and
\* delete have built, items of zero or negative quantity included, the
\* stored walletMoney after a checkout is not above the walletMoney before it.
C18_CheckoutNeverCredits ==
    \A r \in Reqs :
        LET q == req[r] IN
        Finished(r, "checkout")
        => users[q.email].walletMoney <= q.pre.walletMoney

\* A checkout went through its checks and its saves on a cart whose total is
\* negative, and emptied it.
C18_Witness ==
    \E r \in Reqs :
        LET q == req[r] IN
        /\ Finished(r, "checkout")
        /\ PassedChecks(q)
        /\ ~StoreFailed(q)
        /\ CartTotal(q.pre.cart.cartItems) < 0
        /\ Emptied(q)
        /\ users[q.email].walletMoney <= q.pre.walletMoney

\* C17: the stored walletMoney of every account is a non-negative number in
\* every state that cart operations and checkouts reach from non-negative
\* wallets, whatever the cart and however the calls interleave.
C17_WalletNeverNegative ==
    \A u \in Users : users[u].walletMoney \in Nat

\* Two calls of one user are interleaved: a checkout has written the emptied
\* cart and has its wallet write still under way, while an add that loaded
\* the cart before is about to save it.
C17_Witness ==
    \E r, s \in Reqs :
        /\ req[r].pc = "checkout_save"
        /\ req[r].cartSave = "saved"
        /\ req[r].userSave = "pending"
        /\ req[s].pc = "add_save"
        /\ req[s].email = req[r].email
        /\ users[req[r].email].walletMoney \in Nat

\* Some item of `items` is among the stored items of the user.
StillHolds(email, items) ==
    \E i \in 1 .. Len(items), j \in 1 .. Len(carts[email].cartItems) :
        carts[email].cartItems[j] = items[i]

\* C19: when a checkout races another call on the same user's cart, each
\* save replacing the whole stored cart, the amount the checkout takes from
\* the wallet is the total of the items it removes from the stored cart; and
\* once both calls are over, a wallet that was debited is not found next to
\* a stored cart that still holds items the checkout was paid for.
C19_DebitIsTotalOfRemovedItems ==
    \A r, s \in Reqs :
        LET q == req[r] IN
        (/\ r # s
         /\ Finished(r, "checkout")
         /\ req[s].email = q.email
         /\ req[s].op \in {"addProductToCart", "updateProductInCart",
                           "deleteProductFromCart"}
         /\ PassedChecks(q)
         /\ ~StoreFailed(q)
         /\ q.user.address # DefaultAddress
         /\ PositiveQuantities(q.loaded)
         /\ CartTotal(q.loaded) <= q.pre.walletMoney)
        => /\ q.pre.walletMoney - users[q.email].walletMoney = CartTotal(q.removed)
           /\ (req[s].pc = "done" /\ Debited(q)) => ~StillHolds(q.email, q.loaded)

=============================================================================
